---- MODULE Spec2Model ----
(***************************************************************************)
(* Model of the line-readings action creators of the OED web client        *)
(* (src/client/app/actions/lineReadings.ts): the two cache-lookup          *)
(* predicates, the two batch thunks and the orchestrating thunk            *)
(* fetchNeededLineReadings, together with the Redux store they read and    *)
(* dispatch to and the HTTP requests they leave in flight.                 *)
(***************************************************************************)
EXTENDS Integers, Sequences, FiniteSets, TLC

VARIABLES
    selectedMeters,   \* state.graph.selectedMeters
    selectedGroups,   \* state.graph.selectedGroups
    byMeterID,        \* state.readings.line.byMeterID
    byGroupID,        \* state.readings.line.byGroupID
    requests,         \* the axios.get calls issued so far, in issue order
    events,           \* what has happened so far, in order: invocations,
                      \* actions dispatched to the store, rejected requests
    invocations,      \* the calls of fetchNeededLineReadings so far
    lookup            \* the last stand-alone call of a cache-lookup predicate

vars == <<selectedMeters, selectedGroups, byMeterID, byGroupID,
          requests, events, invocations, lookup>>

----------------------------------------------------------------------------
(* Bounds *)

MaxMeterID == 2
MaxGroupID == 1
MaxInvocations == 2

MeterIDs == 1..MaxMeterID
GroupIDs == 1..MaxGroupID

(* The time intervals a caller may ask for. *)
TimeIntervals ==
    { [startTimestamp |-> 0, endTimestamp |-> 1],
      [startTimestamp |-> 1, endTimestamp |-> 2] }

(* The bodies the server may answer with. *)
Payloads == {"readings"}

NoReadings == "none"

NoLookup == [kind |-> "none"]

----------------------------------------------------------------------------
(* Action type tags *)

REQUEST_GROUP_LINE_READINGS == "REQUEST_GROUP_LINE_READINGS"
RECEIVE_GROUP_LINE_READINGS == "RECEIVE_GROUP_LINE_READINGS"
REQUEST_METER_LINE_READINGS == "REQUEST_METER_LINE_READINGS"
RECEIVE_METER_LINE_READINGS == "RECEIVE_METER_LINE_READINGS"

----------------------------------------------------------------------------
(* Helpers *)

Range(s) == { s[i] : i \in 1..Len(s) }

(* Array.prototype.join: the elements with the separator between them. *)
RECURSIVE join(_, _)
join(s, sep) ==
    IF Len(s) = 0 THEN <<>>
    ELSE IF Len(s) = 1 THEN <<s[1]>>
    ELSE <<s[1], sep>> \o join(Tail(s), sep)

(* The IDs a comma-separated list names (what the server reads back). *)
IDsOfList(str) == { str[i] : i \in { j \in 1..Len(str) : j % 2 = 1 } }

(* TimeInterval.toString: the canonical string, start and end around "_". *)
toString(timeInterval) ==
    <<timeInterval.startTimestamp, "_", timeInterval.endTimestamp>>

(* obj[key] = value on a copy of obj *)
Put(obj, key, value) ==
    [k \in (DOMAIN obj) \cup {key} |-> IF k = key THEN value ELSE obj[k]]

(* The store state as getState() returns it. *)
getState ==
    [graph |-> [selectedMeters |-> selectedMeters,
                selectedGroups |-> selectedGroups],
     readings |-> [line |-> [byMeterID |-> byMeterID,
                             byGroupID |-> byGroupID]]]

----------------------------------------------------------------------------
(* The cache-lookup predicates *)

(* Variant: the group's flag is never consulted. *)
shouldFetchGroupLineReadingsAlways(state, groupID, timeInterval) == TRUE

(* Variant: a mapping for the id without the interval's key is taken for *)
(* a hit.                                                                  *)
shouldFetchGroupLineReadingsKeyless(state, groupID, timeInterval) ==
    LET timeIntervalIndex == toString(timeInterval)
        byID == state.readings.line.byGroupID
    IN  IF groupID \notin DOMAIN byID THEN TRUE
        ELSE LET readingsForID == byID[groupID]
             IN  IF timeIntervalIndex \notin DOMAIN readingsForID THEN FALSE
                 ELSE ~readingsForID[timeIntervalIndex].isFetching

shouldFetchGroupLineReadings(state, groupID, timeInterval) ==
    LET timeIntervalIndex == toString(timeInterval)
        byID == state.readings.line.byGroupID
    IN  IF groupID \notin DOMAIN byID THEN TRUE
        ELSE LET readingsForID == byID[groupID]
             IN  IF timeIntervalIndex \notin DOMAIN readingsForID THEN TRUE
                 ELSE ~readingsForID[timeIntervalIndex].isFetching

(* Variant: an in-flight entry of the meter for any interval counts. *)
shouldFetchMeterLineReadingsAnyInterval(state, meterID, timeInterval) ==
    LET byID == state.readings.line.byMeterID
    IN  IF meterID \notin DOMAIN byID THEN TRUE
        ELSE \A key \in DOMAIN byID[meterID] : ~byID[meterID][key].isFetching

(* Variant: the isFetching flag is never consulted. *)
shouldFetchMeterLineReadingsAlways(state, meterID, timeInterval) == TRUE

(* Variant: any existing entry is a cache hit. *)
shouldFetchMeterLineReadingsCacheHit(state, meterID, timeInterval) ==
    LET timeIntervalIndex == toString(timeInterval)
        byID == state.readings.line.byMeterID
    IN  IF meterID \notin DOMAIN byID THEN TRUE
        ELSE timeIntervalIndex \notin DOMAIN byID[meterID]

(* Variant: the negation of the flag is dropped. *)
shouldFetchMeterLineReadingsFlag(state, meterID, timeInterval) ==
    LET timeIntervalIndex == toString(timeInterval)
        byID == state.readings.line.byMeterID
    IN  IF meterID \notin DOMAIN byID THEN TRUE
        ELSE LET readingsForID == byID[meterID]
             IN  IF timeIntervalIndex \notin DOMAIN readingsForID THEN TRUE
                 ELSE readingsForID[timeIntervalIndex].isFetching

shouldFetchMeterLineReadings(state, meterID, timeInterval) ==
    LET timeIntervalIndex == toString(timeInterval)
        byID == state.readings.line.byMeterID
    IN  IF meterID \notin DOMAIN byID THEN TRUE
        ELSE LET readingsForID == byID[meterID]
             IN  IF timeIntervalIndex \notin DOMAIN readingsForID THEN TRUE
                 ELSE ~readingsForID[timeIntervalIndex].isFetching

----------------------------------------------------------------------------
(* Action creators *)

requestMeterLineReadings(meterIDs, timeInterval) ==
    [type |-> REQUEST_METER_LINE_READINGS, meterIDs |-> meterIDs,
     timeInterval |-> timeInterval]

receiveMeterLineReadings(meterIDs, timeInterval, readings) ==
    [type |-> RECEIVE_METER_LINE_READINGS, meterIDs |-> meterIDs,
     timeInterval |-> timeInterval, readings |-> readings]

requestGroupLineReadings(groupIDs, timeInterval) ==
    [type |-> REQUEST_GROUP_LINE_READINGS, groupIDs |-> groupIDs,
     timeInterval |-> timeInterval]

receiveGroupLineReadings(groupIDs, timeInterval, readings) ==
    [type |-> RECEIVE_GROUP_LINE_READINGS, groupIDs |-> groupIDs,
     timeInterval |-> timeInterval, readings |-> readings]

IsMeterAction(action) ==
    action.type \in {REQUEST_METER_LINE_READINGS, RECEIVE_METER_LINE_READINGS}

IsRequestAction(action) ==
    action.type \in {REQUEST_METER_LINE_READINGS, REQUEST_GROUP_LINE_READINGS}

IsReceiveAction(action) ==
    action.type \in {RECEIVE_METER_LINE_READINGS, RECEIVE_GROUP_LINE_READINGS}

(* The ID list an action carries, whichever kind it is. *)
ActionIDs(action) ==
    IF IsMeterAction(action) THEN action.meterIDs ELSE action.groupIDs

----------------------------------------------------------------------------
(* The store's reducer for the line-readings slice: a request-started      *)
(* action marks every (id, interval) of the batch as fetching, creating    *)
(* the entry if needed; a data-received action stores the payload and      *)
(* clears the flag.                                                         *)

reduceByID(byID, action) ==
    LET ids == Range(ActionIDs(action))
        key == toString(action.timeInterval)
        old(id) == IF id \in DOMAIN byID THEN byID[id] ELSE <<>>
        entry(id) ==
            IF IsRequestAction(action)
            THEN [isFetching |-> TRUE,
                  readings |-> IF key \in DOMAIN old(id)
                               THEN old(id)[key].readings ELSE NoReadings]
            ELSE [isFetching |-> FALSE, readings |-> action.readings]
    IN  [id \in (DOMAIN byID) \cup ids |->
            IF id \in ids THEN Put(old(id), key, entry(id)) ELSE byID[id]]

lineReadingsReducer(line, action) ==
    IF IsMeterAction(action)
    THEN [line EXCEPT !.byMeterID = reduceByID(line.byMeterID, action)]
    ELSE [line EXCEPT !.byGroupID = reduceByID(line.byGroupID, action)]

(* dispatch of a sequence of plain actions, left to right *)
RECURSIVE dispatchAll(_, _)
dispatchAll(line, actions) ==
    IF Len(actions) = 0 THEN line
    ELSE dispatchAll(lineReadingsReducer(line, Head(actions)), Tail(actions))

----------------------------------------------------------------------------
(* The batch thunks.  Each yields the action it dispatches synchronously    *)
(* and the HTTP request it issues; the request record keeps what the        *)
(* .then callback closes over (ids, timeInterval).                          *)

(* Variant: the request is issued without the request-started dispatch. *)
fetchMeterLineReadingsSilent(meterIDs, timeInterval) ==
    [dispatch |-> <<>>,
     request |-> [kind |-> "meters",
                  stringifiedIDs |-> join(meterIDs, ","),
                  params |-> [timeInterval |-> toString(timeInterval)],
                  ids |-> meterIDs,
                  timeInterval |-> timeInterval,
                  status |-> "pending"]]

fetchMeterLineReadings(meterIDs, timeInterval) ==
    [dispatch |-> <<requestMeterLineReadings(meterIDs, timeInterval)>>,
     request |-> [kind |-> "meters",
                  stringifiedIDs |-> join(meterIDs, ","),
                  params |-> [timeInterval |-> toString(timeInterval)],
                  ids |-> meterIDs,
                  timeInterval |-> timeInterval,
                  status |-> "pending"]]

fetchGroupLineReadings(groupIDs, timeInterval) ==
    [dispatch |-> <<requestGroupLineReadings(groupIDs, timeInterval)>>,
     request |-> [kind |-> "groups",
                  stringifiedIDs |-> join(groupIDs, ","),
                  params |-> [timeInterval |-> toString(timeInterval)],
                  ids |-> groupIDs,
                  timeInterval |-> timeInterval,
                  status |-> "pending"]]

(* Variant: the callback reads the selection of the moment instead of the *)
(* ids it was created with.                                                *)
onMeterResponseReselected(request, data) ==
    receiveMeterLineReadings(selectedMeters, request.timeInterval, data)

(* The .then callbacks: the action dispatched when the response arrives. *)
onMeterResponse(request, data) ==
    receiveMeterLineReadings(request.ids, request.timeInterval, data)

(* Variant: the group callback uses the meter action creator. *)
onGroupResponseAsMeters(request, data) ==
    receiveMeterLineReadings(request.ids, request.timeInterval, data)

(* Variant: the group callback dispatches the request action again. *)
onGroupResponseRequests(request, data) ==
    requestGroupLineReadings(request.ids, request.timeInterval)

onGroupResponse(request, data) ==
    receiveGroupLineReadings(request.ids, request.timeInterval, data)

(* Variant: a rejection handler that dispatches data-received with no    *)
(* readings.                                                               *)
onRejectedReceives(request) ==
    IF request.kind = "meters"
    THEN <<receiveMeterLineReadings(request.ids, request.timeInterval, NoReadings)>>
    ELSE <<receiveGroupLineReadings(request.ids, request.timeInterval, NoReadings)>>

(* The promise chain has no rejection handler: nothing is dispatched when *)
(* the request fails.                                                      *)
onRejected(request) == <<>>

----------------------------------------------------------------------------
(* The orchestrating thunk *)

meterIDsToFetchForLine(state, timeInterval) ==
    SelectSeq(state.graph.selectedMeters,
              LAMBDA id : shouldFetchMeterLineReadings(state, id, timeInterval))

(* Variant: the groups are filtered with the meter predicate. *)
groupIDsToFetchForLineByMeter(state, timeInterval) ==
    SelectSeq(state.graph.selectedGroups,
              LAMBDA id : shouldFetchMeterLineReadings(state, id, timeInterval))

groupIDsToFetchForLine(state, timeInterval) ==
    SelectSeq(state.graph.selectedGroups,
              LAMBDA id : shouldFetchGroupLineReadings(state, id, timeInterval))

(* Variant: the test written >= 0. *)
hasIDsToFetchOrNone(ids) == Len(ids) >= 0

(* The test guarding each promises.push *)
hasIDsToFetch(ids) == Len(ids) > 0

(* Variant: one thunk per id instead of one per kind. *)
thunksToDispatchPerID(state, timeInterval) ==
    LET meterIDs == meterIDsToFetchForLine(state, timeInterval)
        groupIDs == groupIDsToFetchForLine(state, timeInterval)
    IN  [i \in 1..Len(meterIDs) |->
            fetchMeterLineReadings(<<meterIDs[i]>>, timeInterval)]
        \o
        [i \in 1..Len(groupIDs) |->
            fetchGroupLineReadings(<<groupIDs[i]>>, timeInterval)]

(* The batch thunks one invocation dispatches, meters first. *)
thunksToDispatch(state, timeInterval) ==
    LET meterIDs == meterIDsToFetchForLine(state, timeInterval)
        groupIDs == groupIDsToFetchForLine(state, timeInterval)
    IN  (IF hasIDsToFetch(meterIDs)
         THEN <<fetchMeterLineReadings(meterIDs, timeInterval)>> ELSE <<>>)
        \o
        (IF hasIDsToFetch(groupIDs)
         THEN <<fetchGroupLineReadings(groupIDs, timeInterval)>> ELSE <<>>)

(* Variant: Promise.race in place of Promise.all. *)
promiseRace(statuses) ==
    IF statuses = {} THEN "resolved"
    ELSE IF "resolved" \in statuses THEN "resolved"
    ELSE IF "rejected" \in statuses THEN "rejected"
    ELSE "pending"

(* Promise.all over promises with the given statuses. *)
promiseAll(statuses) ==
    IF "rejected" \in statuses THEN "rejected"
    ELSE IF "pending" \in statuses THEN "pending"
    ELSE "resolved"

(* The events of dispatching the given actions on behalf of request b. *)
DispatchEvents(actions, b) ==
    [i \in 1..Len(actions) |->
        [kind |-> "dispatch", action |-> actions[i], batch |-> b]]

(* All the events of the thunks from the i-th on; the first of them issues *)
(* request number b.                                                        *)
RECURSIVE ThunkEvents(_, _, _)
ThunkEvents(thunks, i, b) ==
    IF i > Len(thunks) THEN <<>>
    ELSE DispatchEvents(thunks[i].dispatch, b) \o ThunkEvents(thunks, i + 1, b + 1)

RECURSIVE ThunkActions(_, _)
ThunkActions(thunks, i) ==
    IF i > Len(thunks) THEN <<>>
    ELSE thunks[i].dispatch \o ThunkActions(thunks, i + 1)

Init ==
    /\ selectedMeters = <<>>
    /\ selectedGroups = <<>>
    /\ byMeterID = <<>>
    /\ byGroupID = <<>>
    /\ requests = <<>>
    /\ events = <<>>
    /\ invocations = <<>>
    /\ lookup = NoLookup

(* One synchronous run of the thunk fetchNeededLineReadings(timeInterval)  *)
(* returns: snapshot, both filters, the request-started dispatches, the    *)
(* HTTP requests, Promise.all.                                              *)
fetchNeededLineReadings(timeInterval) ==
    /\ Len(invocations) < MaxInvocations
    /\ LET state == getState
           thunks == thunksToDispatch(state, timeInterval)
           inv == Len(invocations) + 1
           line == dispatchAll(state.readings.line, ThunkActions(thunks, 1))
           issued == [i \in 1..Len(thunks) |-> thunks[i].request]
       IN  /\ events' = events \o <<[kind |-> "invoke", inv |-> inv]>>
                               \o ThunkEvents(thunks, 1, Len(requests) + 1)
           /\ requests' = requests \o issued
           /\ byMeterID' = line.byMeterID
           /\ byGroupID' = line.byGroupID
           /\ invocations' = Append(invocations,
                  [timeInterval |-> timeInterval,
                   state |-> state,
                   promises |-> { Len(requests) + i : i \in 1..Len(thunks) },
                   completion |->
                       promiseAll({ issued[i].status : i \in 1..Len(thunks) })])
    /\ UNCHANGED <<selectedMeters, selectedGroups, lookup>>

(* The completion signals once the requests have the given statuses. *)
settle(reqs) ==
    [i \in 1..Len(invocations) |->
        IF invocations[i].completion = "pending"
        THEN [invocations[i] EXCEPT !.completion =
                 promiseAll({ reqs[b].status : b \in invocations[i].promises })]
        ELSE invocations[i]]

(* Variant: the batches of one invocation are chained, so a response is   *)
(* dropped once a batch of the same invocation has failed.                 *)
ResponseArrivesChained(b, data) ==
    /\ requests[b].status = "pending"
    /\ LET action == IF requests[b].kind = "meters"
                     THEN onMeterResponse(requests[b], data)
                     ELSE onGroupResponse(requests[b], data)
           failed == \E i \in 1..Len(invocations) :
                        /\ b \in invocations[i].promises
                        /\ invocations[i].completion = "rejected"
           actions == IF failed THEN <<>> ELSE <<action>>
           line == dispatchAll(getState.readings.line, actions)
           reqs == [requests EXCEPT ![b].status = "resolved"]
       IN  /\ events' = events \o DispatchEvents(actions, b)
           /\ byMeterID' = line.byMeterID
           /\ byGroupID' = line.byGroupID
           /\ requests' = reqs
           /\ invocations' = settle(reqs)
    /\ UNCHANGED <<selectedMeters, selectedGroups, lookup>>

(* The HTTP request b succeeds with body data: the .then callback runs. *)
ResponseArrives(b, data) ==
    /\ requests[b].status = "pending"
    /\ LET action == IF requests[b].kind = "meters"
                     THEN onMeterResponse(requests[b], data)
                     ELSE onGroupResponse(requests[b], data)
           line == lineReadingsReducer(getState.readings.line, action)
           reqs == [requests EXCEPT ![b].status = "resolved"]
       IN  /\ events' = events \o DispatchEvents(<<action>>, b)
           /\ byMeterID' = line.byMeterID
           /\ byGroupID' = line.byGroupID
           /\ requests' = reqs
           /\ invocations' = settle(reqs)
    /\ UNCHANGED <<selectedMeters, selectedGroups, lookup>>

(* The HTTP request b fails: its promise rejects. *)
RequestFails(b) ==
    /\ requests[b].status = "pending"
    /\ LET actions == onRejected(requests[b])
           line == dispatchAll(getState.readings.line, actions)
           reqs == [requests EXCEPT ![b].status = "rejected"]
       IN  /\ events' = events \o <<[kind |-> "rejected", batch |-> b]>>
                               \o DispatchEvents(actions, b)
           /\ byMeterID' = line.byMeterID
           /\ byGroupID' = line.byGroupID
           /\ requests' = reqs
           /\ invocations' = settle(reqs)
    /\ UNCHANGED <<selectedMeters, selectedGroups, lookup>>

(* The selection changes outside this subsystem. *)
Remove(s, id) == SelectSeq(s, LAMBDA x : x # id)

SelectMeter(id) ==
    /\ id \notin Range(selectedMeters)
    /\ selectedMeters' = Append(selectedMeters, id)
    /\ UNCHANGED <<selectedGroups, byMeterID, byGroupID, requests,
                   events, invocations, lookup>>

DeselectMeter(id) ==
    /\ id \in Range(selectedMeters)
    /\ selectedMeters' = Remove(selectedMeters, id)
    /\ UNCHANGED <<selectedGroups, byMeterID, byGroupID, requests,
                   events, invocations, lookup>>

SelectGroup(id) ==
    /\ id \notin Range(selectedGroups)
    /\ selectedGroups' = Append(selectedGroups, id)
    /\ UNCHANGED <<selectedMeters, byMeterID, byGroupID, requests,
                   events, invocations, lookup>>

DeselectGroup(id) ==
    /\ id \in Range(selectedGroups)
    /\ selectedGroups' = Remove(selectedGroups, id)
    /\ UNCHANGED <<selectedMeters, byMeterID, byGroupID, requests,
                   events, invocations, lookup>>

Next ==
    \/ \E timeInterval \in TimeIntervals : fetchNeededLineReadings(timeInterval)
    \/ \E b \in 1..Len(requests), data \in Payloads : ResponseArrives(b, data)
    \/ \E b \in 1..Len(requests) : RequestFails(b)
    \/ \E id \in MeterIDs : SelectMeter(id)
    \/ \E id \in MeterIDs : DeselectMeter(id)
    \/ \E id \in GroupIDs : SelectGroup(id)
    \/ \E id \in GroupIDs : DeselectGroup(id)

Spec == Init /\ [][Next]_vars

----------------------------------------------------------------------------
(* The same system when no network call fails and every response is       *)
(* eventually delivered.  The selection only grows here: every selection   *)
(* list is still reached, by selecting its ids in order.                   *)

NextLive ==
    \/ \E timeInterval \in TimeIntervals : fetchNeededLineReadings(timeInterval)
    \/ \E b \in 1..Len(requests), data \in Payloads : ResponseArrives(b, data)
    \/ \E id \in MeterIDs : SelectMeter(id)
    \/ \E id \in GroupIDs : SelectGroup(id)

(* Delivery of the response to request b. *)
Delivery(b) ==
    /\ b \in 1..Len(requests)
    /\ \E data \in Payloads : ResponseArrives(b, data)

SpecLive ==
    /\ Init
    /\ [][NextLive]_vars
    /\ \A b \in 1..(2 * MaxInvocations) : WF_vars(Delivery(b))

(* Failures allowed, every response that can still arrive does arrive. *)
SpecFair ==
    /\ Init
    /\ [][NextLive \/ \E b \in 1..Len(requests) : RequestFails(b)]_vars
    /\ \A b \in 1..(2 * MaxInvocations) : WF_vars(Delivery(b))

----------------------------------------------------------------------------
(* The units-details fetcher.  It shares nothing with the line readings:   *)
(* its requests, dispatches and completion signals are recorded in the     *)
(* same variables.                                                         *)

MaxUnitsFetches == 3

(* The unit lists the server may answer with. *)
UnitLists == { <<>>, <<"kWh">>, <<"kWh", "MJ">> }

NoResponse == "none"

RequestUnitsDetails == "RequestUnitsDetails"
ReceiveUnitsDetails == "ReceiveUnitsDetails"

requestUnitsDetails == [type |-> RequestUnitsDetails]

receiveUnitsDetails(data) == [type |-> ReceiveUnitsDetails, data |-> data]

(* Variant: no new network call while an earlier one is outstanding. *)
fetchUnitsDetailsDeduplicated ==
    /\ Len(invocations) < MaxUnitsFetches
    /\ LET inv == Len(invocations) + 1
           busy == \E b \in 1..Len(requests) : requests[b].status = "pending"
           b == Len(requests) + 1
       IN  /\ events' = events \o <<[kind |-> "invoke", inv |-> inv]>>
                               \o DispatchEvents(<<requestUnitsDetails>>, b)
           /\ requests' = IF busy THEN requests
                          ELSE Append(requests, [kind |-> "units", status |-> "pending",
                                                 response |-> NoResponse])
           /\ invocations' = Append(invocations,
                  [promises |-> IF busy THEN {} ELSE {b},
                   completion |-> IF busy THEN "resolved" ELSE "pending"])
    /\ UNCHANGED <<selectedMeters, selectedGroups, byMeterID, byGroupID, lookup>>

(* One call of the thunk fetchUnitsDetails() up to its await: the          *)
(* request-started dispatch, then the network call.                        *)
fetchUnitsDetails ==
    /\ Len(invocations) < MaxUnitsFetches
    /\ LET inv == Len(invocations) + 1
           b == Len(requests) + 1
       IN  /\ events' = events \o <<[kind |-> "invoke", inv |-> inv]>>
                               \o DispatchEvents(<<requestUnitsDetails>>, b)
           /\ requests' = Append(requests, [kind |-> "units", status |-> "pending",
                                            response |-> NoResponse])
           /\ invocations' = Append(invocations,
                  [promises |-> {b}, completion |-> "pending"])
    /\ UNCHANGED <<selectedMeters, selectedGroups, byMeterID, byGroupID, lookup>>

(* unitsApi.details() of request b returns unitsDetails: the thunk resumes *)
(* after its await and dispatches data-received.                           *)
UnitsDetailsArrive(b, unitsDetails) ==
    /\ requests[b].status = "pending"
    /\ LET reqs == [requests EXCEPT ![b].status = "resolved",
                                    ![b].response = unitsDetails]
       IN  /\ events' = events \o DispatchEvents(<<receiveUnitsDetails(unitsDetails)>>, b)
           /\ requests' = reqs
           /\ invocations' = settle(reqs)
    /\ UNCHANGED <<selectedMeters, selectedGroups, byMeterID, byGroupID, lookup>>

(* unitsApi.details() of request b throws: the thunk's promise rejects at  *)
(* the await and the rest of the thunk does not run.                       *)
UnitsDetailsFail(b) ==
    /\ requests[b].status = "pending"
    /\ LET reqs == [requests EXCEPT ![b].status = "rejected"]
       IN  /\ events' = Append(events, [kind |-> "rejected", batch |-> b])
           /\ requests' = reqs
           /\ invocations' = settle(reqs)
    /\ UNCHANGED <<selectedMeters, selectedGroups, byMeterID, byGroupID, lookup>>

NextUnits ==
    \/ fetchUnitsDetails
    \/ \E b \in 1..Len(requests) : \E unitsDetails \in UnitLists :
           UnitsDetailsArrive(b, unitsDetails)
    \/ \E b \in 1..Len(requests) : UnitsDetailsFail(b)

SpecUnits == Init /\ [][NextUnits]_vars

----------------------------------------------------------------------------
(* Stand-alone use of the cache-lookup predicates: any cache of the data   *)
(* model, any id, any interval.                                             *)

CacheKeys == { toString(t) : t \in TimeIntervals }

CacheEntries ==
    { [isFetching |-> TRUE, readings |-> NoReadings] }
    \cup [isFetching : BOOLEAN, readings : Payloads]

PartialFunctions(D, R) == UNION { [S -> R] : S \in SUBSET D }

Caches(IDs) == PartialFunctions(IDs, PartialFunctions(CacheKeys, CacheEntries))

InitLookup ==
    /\ selectedMeters = <<>>
    /\ selectedGroups = <<>>
    /\ \/ byMeterID \in Caches(MeterIDs) /\ byGroupID = <<>>
       \/ byMeterID = <<>> /\ byGroupID \in Caches(GroupIDs)
    /\ requests = <<>>
    /\ events = <<>>
    /\ invocations = <<>>
    /\ lookup = NoLookup

LookupMeter(id, timeInterval) ==
    /\ lookup' = [kind |-> "meters", id |-> id, timeInterval |-> timeInterval,
                  result |-> shouldFetchMeterLineReadings(getState, id, timeInterval)]
    /\ UNCHANGED <<selectedMeters, selectedGroups, byMeterID, byGroupID,
                   requests, events, invocations>>

LookupGroup(id, timeInterval) ==
    /\ lookup' = [kind |-> "groups", id |-> id, timeInterval |-> timeInterval,
                  result |-> shouldFetchGroupLineReadings(getState, id, timeInterval)]
    /\ UNCHANGED <<selectedMeters, selectedGroups, byMeterID, byGroupID,
                   requests, events, invocations>>

NextLookup ==
    \/ \E id \in MeterIDs, timeInterval \in TimeIntervals :
           LookupMeter(id, timeInterval)
    \/ \E id \in GroupIDs, timeInterval \in TimeIntervals :
           LookupGroup(id, timeInterval)

SpecLookup == InitLookup /\ [][NextLookup]_vars

----------------------------------------------------------------------------
(* Vocabulary of the properties *)

Kinds == {"meters", "groups"}

IDsOf(kind) == IF kind = "meters" THEN MeterIDs ELSE GroupIDs

(* Every (kind, id) pair. *)
Entities == ({"meters"} \X MeterIDs) \cup ({"groups"} \X GroupIDs)

(* The cache of one entity kind inside a store state. *)
CacheIn(state, kind) ==
    IF kind = "meters" THEN state.readings.line.byMeterID
    ELSE state.readings.line.byGroupID

SelectionIn(state, kind) ==
    IF kind = "meters" THEN state.graph.selectedMeters
    ELSE state.graph.selectedGroups

HasEntryIn(state, kind, id, timeInterval) ==
    /\ id \in DOMAIN CacheIn(state, kind)
    /\ toString(timeInterval) \in DOMAIN CacheIn(state, kind)[id]

EntryIn(state, kind, id, timeInterval) ==
    CacheIn(state, kind)[id][toString(timeInterval)]

IsFetchingIn(state, kind, id, timeInterval) ==
    /\ HasEntryIn(state, kind, id, timeInterval)
    /\ EntryIn(state, kind, id, timeInterval).isFetching

IsResolvedIn(state, kind, id, timeInterval) ==
    /\ HasEntryIn(state, kind, id, timeInterval)
    /\ ~EntryIn(state, kind, id, timeInterval).isFetching

(* Request b asks the server for (kind, id, timeInterval). *)
Covers(b, kind, id, timeInterval) ==
    /\ requests[b].kind = kind
    /\ id \in IDsOfList(requests[b].stringifiedIDs)
    /\ requests[b].params.timeInterval = toString(timeInterval)

Outstanding(kind, id, timeInterval) ==
    { b \in 1..Len(requests) :
        requests[b].status = "pending" /\ Covers(b, kind, id, timeInterval) }

IsRequestStarted(e, b) ==
    e.kind = "dispatch" /\ e.batch = b /\ IsRequestAction(e.action)

IsDataReceived(e, b) ==
    e.kind = "dispatch" /\ e.batch = b /\ IsReceiveAction(e.action)

IsRejected(e, b) == e.kind = "rejected" /\ e.batch = b

IsInvoke(e, i) == e.kind = "invoke" /\ e.inv = i

Batches == 1..Len(requests)

Positions == 1..Len(events)

(* The requests invocation i issued, of one kind. *)
RequestsOf(i, kind) ==
    { b \in invocations[i].promises : requests[b].kind = kind }

----------------------------------------------------------------------------
(* C1: in every reachable state at most one pending network call covers    *)
(* any (entity kind, id, interval) triple, so an invocation made while a   *)
(* batch containing the id is in flight issues no second call for it.      *)
C1_AtMostOneOutstanding ==
    \A kind \in Kinds : \A id \in IDsOf(kind) : \A t \in TimeIntervals :
        Cardinality(Outstanding(kind, id, t)) <= 1

(* A second invocation with the same interval, made with the id still      *)
(* selected while the first invocation's request for it is in flight.      *)
C1_Witness ==
    /\ Len(invocations) = 2
    /\ \E b \in invocations[1].promises : \E id \in MeterIDs :
          /\ requests[b].status = "pending"
          /\ Covers(b, "meters", id, invocations[2].timeInterval)
          /\ id \in Range(invocations[2].state.graph.selectedMeters)
          /\ IsFetchingIn(invocations[2].state, "meters", id,
                          invocations[2].timeInterval)

(* C2: when every selected id of a kind is either resolved or has no entry *)
(* for the requested interval, and both cases occur, the invocation issues *)
(* exactly one batch of that kind carrying only the ids with no entry, in  *)
(* selection order; a kind with an empty selection gets no call.           *)
C2_OnlyMissingFetched ==
    \A i \in 1..Len(invocations) : \A kind \in Kinds :
        LET state == invocations[i].state
            t == invocations[i].timeInterval
            sel == SelectionIn(state, kind)
            missing == SelectSeq(sel, LAMBDA id : ~HasEntryIn(state, kind, id, t))
        IN  /\ ( /\ \A id \in Range(sel) :
                       \/ IsResolvedIn(state, kind, id, t)
                       \/ ~HasEntryIn(state, kind, id, t)
                 /\ \E id \in Range(sel) : IsResolvedIn(state, kind, id, t)
                 /\ \E id \in Range(sel) : ~HasEntryIn(state, kind, id, t) )
               => /\ Cardinality(RequestsOf(i, kind)) = 1
                  /\ \A b \in RequestsOf(i, kind) : requests[b].ids = missing
            /\ sel = <<>> => RequestsOf(i, kind) = {}

C4_MissingNeedsFetch ==
    (lookup.kind \in Kinds
     /\ ~HasEntryIn(getState, lookup.kind, lookup.id, lookup.timeInterval))
        => lookup.result = TRUE

(* The id has a mapping, but not for this interval. *)
C4_Witness ==
    /\ lookup.kind \in Kinds
    /\ lookup.id \in DOMAIN CacheIn(getState, lookup.kind)
    /\ CacheIn(getState, lookup.kind)[lookup.id] # <<>>
    /\ ~HasEntryIn(getState, lookup.kind, lookup.id, lookup.timeInterval)
    /\ lookup.result = TRUE

(* C5: a lookup of an entry whose isFetching flag is true answers false.   *)
C5_FetchingNeedsNoFetch ==
    (lookup.kind \in Kinds
     /\ IsFetchingIn(getState, lookup.kind, lookup.id, lookup.timeInterval))
        => lookup.result = FALSE

C5_Witness ==
    /\ lookup.kind \in Kinds
    /\ IsFetchingIn(getState, lookup.kind, lookup.id, lookup.timeInterval)
    /\ lookup.result = FALSE

(* C6: once a batch's network call has failed, no data-received is ever   *)
(* dispatched for it, every (id, interval) of the batch keeps              *)
(* isFetching = true, and no invocation made after the failure issues a    *)
(* call covering any of them.                                              *)
C6_FailedFetchBlocksRetries ==
    \A b \in Batches : requests[b].status = "rejected" =>
        /\ \A j \in Positions : ~IsDataReceived(events[j], b)
        /\ \A id \in Range(requests[b].ids) :
              /\ IsFetchingIn(getState, requests[b].kind, id, requests[b].timeInterval)
              /\ \A i \in 1..Len(invocations) : \A j, k \in Positions :
                    (IsRejected(events[j], b) /\ IsInvoke(events[k], i) /\ j < k)
                    => \A b2 \in invocations[i].promises :
                          ~Covers(b2, requests[b].kind, id, requests[b].timeInterval)

(* An invocation after the failure, for the same interval, with an id of   *)
(* the failed batch still selected.                                        *)
C6_Witness ==
    \E b \in Batches : \E i \in 1..Len(invocations) : \E j, k \in Positions :
        /\ requests[b].status = "rejected"
        /\ IsRejected(events[j], b) /\ IsInvoke(events[k], i) /\ j < k
        /\ invocations[i].timeInterval = requests[b].timeInterval
        /\ \E id \in Range(requests[b].ids) :
              id \in Range(SelectionIn(invocations[i].state, requests[b].kind))

(* C7: an invocation with both selections empty dispatches nothing, issues *)
(* no network call, and returns a completion signal that is already        *)
(* resolved.                                                               *)
C7_EmptySelectionNoCalls ==
    [][ ( /\ Len(invocations') = Len(invocations) + 1
          /\ selectedMeters = <<>>
          /\ selectedGroups = <<>> )
        => /\ requests' = requests
           /\ SelectSeq(events', LAMBDA e : e.kind = "dispatch")
                 = SelectSeq(events, LAMBDA e : e.kind = "dispatch")
           /\ byMeterID' = byMeterID /\ byGroupID' = byGroupID
           /\ invocations'[Len(invocations')].promises = {}
           /\ invocations'[Len(invocations')].completion = "resolved" ]_vars

C7_Witness ==
    \E i \in 1..Len(invocations) :
        /\ invocations[i].state.graph.selectedMeters = <<>>
        /\ invocations[i].state.graph.selectedGroups = <<>>
        /\ invocations[i].promises = {}
        /\ invocations[i].completion = "resolved"

(* C8: an invocation issues at most two network calls, at most one per     *)
(* entity kind, and one for a kind exactly when some selected id of that   *)
(* kind needs fetching.                                                    *)
C8_OneBatchPerKind ==
    [][ Len(invocations') = Len(invocations) + 1
        => LET t == invocations'[Len(invocations')].timeInterval
               new == (Len(requests) + 1)..Len(requests')
               newOf(kind) == { b \in new : requests'[b].kind = kind }
           IN  /\ Cardinality(new) <= 2
               /\ \A kind \in Kinds : Cardinality(newOf(kind)) <= 1
               /\ newOf("meters") # {} <=>
                     \E id \in Range(selectedMeters) :
                         shouldFetchMeterLineReadings(getState, id, t)
               /\ newOf("groups") # {} <=>
                     \E id \in Range(selectedGroups) :
                         shouldFetchGroupLineReadings(getState, id, t) ]_vars

(* One invocation that batched two meters into one call and also issued    *)
(* the group call.                                                         *)
C8_Witness ==
    \E i \in 1..Len(invocations) :
        /\ Cardinality(invocations[i].promises) = 2
        /\ \E b \in RequestsOf(i, "meters") : Len(requests[b].ids) >= 2
        /\ RequestsOf(i, "groups") # {}

(* C9: every data-received dispatch and every failure of a batch comes     *)
(* after the request-started dispatch of the same batch.                   *)
C9_RequestStartedFirst ==
    \A b \in Batches : \A j \in Positions :
        (IsDataReceived(events[j], b) \/ IsRejected(events[j], b))
        => \E i \in 1..(j - 1) : IsRequestStarted(events[i], b)

(* One batch has succeeded and another has failed. *)
C9_Witness ==
    /\ \E b \in Batches : \E j \in Positions : IsDataReceived(events[j], b)
    /\ \E b \in Batches : \E j \in Positions : IsRejected(events[j], b)

(* C10: the data-received dispatch of a batch carries the id list and the  *)
(* interval of the request-started dispatch of that batch.                 *)
C10_ReceivedMatchesRequested ==
    \A b \in Batches : \A j \in Positions :
        IsDataReceived(events[j], b)
        => \E i \in 1..(j - 1) :
              /\ IsRequestStarted(events[i], b)
              /\ events[i].action.type =
                    (IF requests[b].kind = "meters"
                     THEN REQUEST_METER_LINE_READINGS
                     ELSE REQUEST_GROUP_LINE_READINGS)
              /\ events[j].action.type =
                    (IF requests[b].kind = "meters"
                     THEN RECEIVE_METER_LINE_READINGS
                     ELSE RECEIVE_GROUP_LINE_READINGS)
              /\ ActionIDs(events[j].action) = ActionIDs(events[i].action)
              /\ events[j].action.timeInterval = events[i].action.timeInterval

(* A response that arrived after the cache had changed (another batch of   *)
(* the same kind was requested in between) and with another selection      *)
(* than the ids requested.                                                 *)
C10_Witness ==
    \E b \in Batches : \E i, k, j \in Positions :
        /\ i < k /\ k < j
        /\ IsRequestStarted(events[i], b)
        /\ IsDataReceived(events[j], b)
        /\ events[k].kind = "dispatch"
        /\ events[k].batch # b
        /\ requests[events[k].batch].kind = requests[b].kind
        /\ j = Len(events)
        /\ SelectionIn(getState, requests[b].kind) # requests[b].ids

(* The other request of the invocation that issued b, if there is one. *)
Siblings(b) ==
    UNION { invocations[i].promises \ {b} :
              i \in { k \in 1..Len(invocations) : b \in invocations[k].promises } }

(* C11: the two batches of one invocation resolve independently: after the *)
(* other batch has failed, a pending batch can still succeed or fail, and  *)
(* a batch that has succeeded has had its data-received dispatched with    *)
(* its own ids, interval and the payload.                                  *)
C11_IndependentResolution ==
    \A b \in Batches : \A o \in Siblings(b) :
        /\ requests[b].status = "resolved"
              => \E j \in Positions :
                    /\ IsDataReceived(events[j], b)
                    /\ ActionIDs(events[j].action) = requests[b].ids
                    /\ events[j].action.timeInterval = requests[b].timeInterval
                    /\ events[j].action.readings \in Payloads
                    /\ IsMeterAction(events[j].action) <=> requests[b].kind = "meters"
        /\ (requests[b].status = "pending" /\ requests[o].status = "rejected")
              => /\ ENABLED (\E data \in Payloads : ResponseArrives(b, data))
                 /\ ENABLED RequestFails(b)

(* The meter batch failed first, the group batch of the same invocation    *)
(* succeeded afterwards.                                                   *)
C11_Witness ==
    \E b \in Batches : \E o \in Siblings(b) : \E j, k \in Positions :
        /\ requests[b].kind = "groups"
        /\ requests[o].kind = "meters"
        /\ IsRejected(events[j], o)
        /\ IsDataReceived(events[k], b)
        /\ j < k

(* C12 as stated: the completion signal of an invocation is never settled  *)
(* while one of its network calls is outstanding, and is rejected once one *)
(* of them is rejected.                                                    *)
C12_SettledOnlyAfterAll ==
    \A i \in 1..Len(invocations) :
        /\ invocations[i].completion # "pending"
              => \A b \in invocations[i].promises : requests[b].status # "pending"
        /\ (\E b \in invocations[i].promises : requests[b].status = "rejected")
              => invocations[i].completion = "rejected"

(* C12 amended: the completion signal is fulfilled exactly when all the    *)
(* invocation's calls (zero, one or two) have succeeded, never while one   *)
(* is outstanding; it is rejected exactly when one of them has been        *)
(* rejected, at once, even if the other call is still outstanding.         *)
C12_FulfilledOnlyAfterAll ==
    \A i \in 1..Len(invocations) :
        /\ invocations[i].completion = "resolved"
              <=> \A b \in invocations[i].promises : requests[b].status = "resolved"
        /\ invocations[i].completion = "rejected"
              <=> \E b \in invocations[i].promises : requests[b].status = "rejected"

(* A completion signal rejected while the other call is outstanding, and   *)
(* another fulfilled after two calls.                                      *)
C12_Witness ==
    /\ \E i \in 1..Len(invocations) :
          /\ invocations[i].completion = "rejected"
          /\ \E b \in invocations[i].promises : requests[b].status = "pending"
    /\ \E i \in 1..Len(invocations) :
          /\ invocations[i].completion = "resolved"
          /\ Cardinality(invocations[i].promises) = 2

(* C13: every invocation of fetchUnitsDetails dispatches request-started  *)
(* and issues exactly one network call of its own, whatever is still       *)
(* outstanding, so there are as many calls as invocations; data-received   *)
(* is dispatched once, with the returned list, after request-started and   *)
(* only for a call that succeeded.                                         *)
C13_UnitsAlwaysFetched ==
    /\ Len(requests) = Len(invocations)
    /\ \A i \in 1..Len(invocations) :
          /\ invocations[i].promises = {i}
          /\ requests[i].kind = "units"
          /\ LET started == { j \in Positions :
                                /\ events[j].kind = "dispatch"
                                /\ events[j].batch = i
                                /\ events[j].action.type = RequestUnitsDetails }
                 received == { j \in Positions :
                                /\ events[j].kind = "dispatch"
                                /\ events[j].batch = i
                                /\ events[j].action.type = ReceiveUnitsDetails }
             IN  /\ Cardinality(started) = 1
                 /\ \A j \in started : j > 1 /\ IsInvoke(events[j - 1], i)
                 /\ Cardinality(received) =
                       (IF requests[i].status = "resolved" THEN 1 ELSE 0)
                 /\ \A k \in received :
                       /\ \A j \in started : j < k
                       /\ events[k].action.data = requests[i].response
                       /\ requests[i].response \in UnitLists

(* A second invocation made while the first call was outstanding; one of   *)
(* the two calls then succeeded and the other failed.                      *)
C13_Witness ==
    \E j, k \in Positions :
        /\ IsInvoke(events[k], 2)
        /\ k < j
        /\ \/ IsRejected(events[j], 1) /\ requests[2].status = "resolved"
           \/ /\ events[j].kind = "dispatch" /\ events[j].batch = 1
              /\ events[j].action.type = ReceiveUnitsDetails
              /\ requests[2].status = "rejected"

(* C14: when no call fails and responses are delivered, every entry that  *)
(* is marked isFetching = true eventually has isFetching = false and       *)
(* holds the payload.                                                      *)
C14_FetchingEventuallyResolved ==
    \A e \in Entities : \A t \in TimeIntervals :
        IsFetchingIn(getState, e[1], e[2], t)
            ~> ( /\ IsResolvedIn(getState, e[1], e[2], t)
                 /\ EntryIn(getState, e[1], e[2], t).readings \in Payloads )

(* An entry of each kind that was requested has been resolved with data.   *)
C14_Witness ==
    \A kind \in Kinds : \E id \in IDsOf(kind) : \E t \in TimeIntervals :
        /\ IsResolvedIn(getState, kind, id, t)
        /\ EntryIn(getState, kind, id, t).readings \in Payloads
        /\ \E b \in Batches : \E j \in Positions :
              IsRequestStarted(events[j], b) /\ Covers(b, kind, id, t)

(* The predicate of one entity kind. *)
ShouldFetch(kind, state, id, timeInterval) ==
    IF kind = "meters"
    THEN shouldFetchMeterLineReadings(state, id, timeInterval)
    ELSE shouldFetchGroupLineReadings(state, id, timeInterval)

OtherKind(kind) == IF kind = "meters" THEN "groups" ELSE "meters"

(* Invocation i issued a call of this kind, for its interval, naming id. *)
Included(i, kind, id) ==
    \E b \in RequestsOf(i, kind) :
        /\ Covers(b, kind, id, invocations[i].timeInterval)
        /\ id \in Range(requests[b].ids)

(* The selected ids of a kind that need fetching in a state. *)
NeedsFetch(state, kind, timeInterval) ==
    SelectSeq(SelectionIn(state, kind),
              LAMBDA id : ShouldFetch(kind, state, id, timeInterval))

(* C15: an in-flight entry suppresses its own triple only.  An invocation  *)
(* for interval Y includes a selected id that is in flight for another     *)
(* interval X but not for Y, and includes a selected id with no entry in   *)
(* its kind although the same number is in flight in the other kind.       *)
C15_ExactTripleOnly ==
    \A i \in 1..Len(invocations) : \A kind \in Kinds :
        LET state == invocations[i].state
            t == invocations[i].timeInterval
        IN  \A id \in Range(SelectionIn(state, kind)) :
              /\ ( /\ \E x \in TimeIntervals \ {t} : IsFetchingIn(state, kind, id, x)
                   /\ ~IsFetchingIn(state, kind, id, t) )
                    => Included(i, kind, id)
              /\ ( /\ \E x \in TimeIntervals :
                          IsFetchingIn(state, OtherKind(kind), id, x)
                   /\ ~HasEntryIn(state, kind, id, t) )
                    => Included(i, kind, id)

(* One invocation met both cases: meter 1 in flight for the other          *)
(* interval, and group 1 without entry while meter 1 is in flight.         *)
C15_Witness ==
    \E i \in 1..Len(invocations) :
        LET state == invocations[i].state
            t == invocations[i].timeInterval
        IN  /\ 1 \in Range(state.graph.selectedMeters)
            /\ 1 \in Range(state.graph.selectedGroups)
            /\ \E x \in TimeIntervals \ {t} : IsFetchingIn(state, "meters", 1, x)
            /\ ~HasEntryIn(state, "meters", 1, t)
            /\ ~HasEntryIn(state, "groups", 1, t)
            /\ Included(i, "meters", 1)
            /\ Included(i, "groups", 1)

(* The cache after the step, and the bodies a response may carry. *)
lineNext == [byMeterID |-> byMeterID', byGroupID |-> byGroupID']

AnyReadings == Payloads \cup {"other readings"}

ResponseAction(request, data) ==
    IF request.kind = "meters" THEN onMeterResponse(request, data)
    ELSE onGroupResponse(request, data)

(* C16: when both batches of one invocation are in flight, delivering one  *)
(* response and then the other leaves the cache as delivering them in the  *)
(* opposite order does.                                                    *)
C16_ResponseOrderIrrelevant ==
    [][ \A b \in Batches : \A o \in Siblings(b) :
          ( /\ requests[b].status = "pending"
            /\ requests[o].status = "pending"
            /\ requests'[b].status = "resolved" )
          => \A data \in AnyReadings :
                LET first == events'[Len(events')].action
                    second == ResponseAction(requests[o], data)
                    line == getState.readings.line
                IN  lineReadingsReducer(lineNext, second)
                      = lineReadingsReducer(lineReadingsReducer(line, second), first)
      ]_vars

(* The meter response came first for one invocation and the group         *)
(* response came first for another.                                        *)
C16_Witness ==
    /\ \E b \in Batches : \E o \in Siblings(b) : \E j, k \in Positions :
          /\ requests[b].kind = "meters"
          /\ IsDataReceived(events[j], b) /\ IsDataReceived(events[k], o) /\ j < k
    /\ \E b \in Batches : \E o \in Siblings(b) : \E j, k \in Positions :
          /\ requests[b].kind = "groups"
          /\ IsDataReceived(events[j], b) /\ IsDataReceived(events[k], o) /\ j < k

(* The (kind, id, interval) entry is the same before and after the step. *)
EntryUnchanged(kind, id, x) ==
    LET key == toString(x)
        before == IF kind = "meters" THEN byMeterID ELSE byGroupID
        after == IF kind = "meters" THEN byMeterID' ELSE byGroupID'
        has(c) == id \in DOMAIN c /\ key \in DOMAIN c[id]
    IN  /\ has(before) <=> has(after)
        /\ has(before) => before[id][key] = after[id][key]

(* Every entry outside the needs-fetch subsets that the state and the     *)
(* interval determine is unchanged by the step.                            *)
FrameOutside(state, timeInterval) ==
    \A kind \in Kinds : \A id \in IDsOf(kind) : \A x \in TimeIntervals :
        ~( /\ x = timeInterval
           /\ id \in Range(NeedsFetch(state, kind, timeInterval)) )
        => EntryUnchanged(kind, id, x)

(* C17: an invocation and the responses to its calls leave the selection   *)
(* unchanged, change the cache only by the actions they dispatch, and      *)
(* leave every entry outside the invocation's needs-fetch subsets for its  *)
(* interval unchanged; an invocation with both subsets empty changes       *)
(* neither cache, selection nor requests.                                  *)
C17_FrameOfInvocation ==
    [][ events' # events =>
          /\ selectedMeters' = selectedMeters
          /\ selectedGroups' = selectedGroups
          /\ lineNext =
               dispatchAll(getState.readings.line,
                   LET added == SubSeq(events', Len(events) + 1, Len(events'))
                       acts == SelectSeq(added, LAMBDA e : e.kind = "dispatch")
                   IN  [n \in 1..Len(acts) |-> acts[n].action])
          /\ Len(invocations') > Len(invocations) =>
                LET t == invocations'[Len(invocations')].timeInterval
                IN  /\ FrameOutside(getState, t)
                    /\ ( /\ NeedsFetch(getState, "meters", t) = <<>>
                         /\ NeedsFetch(getState, "groups", t) = <<>> )
                       => /\ byMeterID' = byMeterID
                          /\ byGroupID' = byGroupID
                          /\ requests' = requests
          /\ \A i \in 1..Len(invocations) : \A b \in invocations[i].promises :
                (requests[b].status = "pending" /\ requests'[b].status # "pending")
                => FrameOutside(invocations[i].state, invocations[i].timeInterval)
      ]_vars

(* An invocation whose response has arrived after the selection changed,   *)
(* and an invocation whose needs-fetch subsets were both empty although a  *)
(* meter was selected.                                                     *)
C17_Witness ==
    /\ \E i \in 1..Len(invocations) : \E b \in invocations[i].promises :
          /\ requests[b].status = "resolved"
          /\ SelectionIn(getState, requests[b].kind)
                # SelectionIn(invocations[i].state, requests[b].kind)
    /\ \E i \in 1..Len(invocations) :
          /\ invocations[i].promises = {}
          /\ invocations[i].state.graph.selectedMeters # <<>>

(* C18: the id list of each request-started action and network call of an  *)
(* invocation is the selection of that kind filtered, in selection order,  *)
(* by the predicate on the state read at the start of the invocation; and  *)
(* the group predicate gives the same answers on the state that the meter  *)
(* request-started has already changed.                                    *)
C18_BatchIsFilteredSelection ==
    \A i \in 1..Len(invocations) :
        LET state == invocations[i].state
            t == invocations[i].timeInterval
            meterActions ==
                LET bs == RequestsOf(i, "meters")
                    es == SelectSeq(events,
                              LAMBDA e : /\ e.kind = "dispatch"
                                         /\ e.batch \in bs
                                         /\ IsRequestAction(e.action))
                IN  [n \in 1..Len(es) |-> es[n].action]
            afterMeters ==
                [state EXCEPT !.readings.line =
                    dispatchAll(state.readings.line, meterActions)]
        IN  /\ \A kind \in Kinds :
                 LET expected == NeedsFetch(state, kind, t)
                 IN  IF expected = <<>> THEN RequestsOf(i, kind) = {}
                     ELSE /\ Cardinality(RequestsOf(i, kind)) = 1
                          /\ \A b \in RequestsOf(i, kind) :
                                /\ requests[b].ids = expected
                                /\ requests[b].stringifiedIDs = join(expected, ",")
                                /\ requests[b].params.timeInterval = toString(t)
                                /\ \E j \in Positions :
                                      /\ IsRequestStarted(events[j], b)
                                      /\ ActionIDs(events[j].action) = expected
                                      /\ events[j].action.timeInterval = t
            /\ \A id \in GroupIDs :
                 shouldFetchGroupLineReadings(afterMeters, id, t)
                    = shouldFetchGroupLineReadings(state, id, t)

(* An invocation whose filter dropped the first selected meter and kept    *)
(* the second, and which issued a group call after the meter call.         *)
C18_Witness ==
    \E i \in 1..Len(invocations) :
        LET state == invocations[i].state
            t == invocations[i].timeInterval
        IN  /\ Len(state.graph.selectedMeters) = 2
            /\ ~shouldFetchMeterLineReadings(state, state.graph.selectedMeters[1], t)
            /\ \E b \in RequestsOf(i, "meters") :
                  requests[b].ids = <<state.graph.selectedMeters[2]>>
            /\ RequestsOf(i, "groups") # {}

(* C19: an entry has isFetching = true exactly when some batch of its kind *)
(* and interval that names its id has dispatched request-started and has   *)
(* not dispatched data-received.                                           *)
C19_FetchingIffUnansweredBatch ==
    \A kind \in Kinds : \A id \in IDsOf(kind) : \A t \in TimeIntervals :
        IsFetchingIn(getState, kind, id, t)
        <=> \E b \in Batches :
               /\ Covers(b, kind, id, t)
               /\ \E j \in Positions : IsRequestStarted(events[j], b)
               /\ \A k \in Positions : ~IsDataReceived(events[k], b)

(* One entry is fetching with its call outstanding, one with its call      *)
(* failed, and one has been answered.                                      *)
C19_Witness ==
    /\ \E b \in Batches : requests[b].status = "pending"
    /\ \E b \in Batches : requests[b].status = "rejected"
    /\ \E kind \in Kinds : \E id \in IDsOf(kind) : \E t \in TimeIntervals :
          IsResolvedIn(getState, kind, id, t)

====
